---- MODULE Spec2Model ----
(***************************************************************************)
(* Blog automation of CryptoTanAI/TechBlog: the daily selection of a       *)
(* country and a technology (automation/content_generator.py), the quality *)
(* gate and the daily cycle (automation/scheduler.py) over the store of    *)
(* models/blog.py.                                                         *)
(*                                                                         *)
(* Time is counted in ticks, TicksPerDay to the day, days counted from 0   *)
(* in months of DaysPerMonth days.  datetime.now() reads the local clock   *)
(* of the server (now) and datetime.utcnow() the same instant in UTC       *)
(* (utcnow): the two differ by the offset of the server's time zone, which *)
(* is fixed for a run.                                                     *)
(*                                                                         *)
(* A function that draws with random.choice is modelled by the set of the  *)
(* values it can return; None and a raised exception are the values None   *)
(* and Raised.                                                             *)
(***************************************************************************)
EXTENDS Integers, Sequences, FiniteSets, TLC

VARIABLES
    is_running,     \* BlogScheduler.is_running
    threads,        \* the polling loops start_scheduler created, each by its position
    jobs,           \* daily jobs registered with the schedule module
    utc_offset,     \* ticks the server's local time is ahead of UTC
    subscribers,    \* rows of table newsletter_subscribers
    media_service,  \* whether the image service answers, fixed for a run
    now,            \* datetime.now(): the local clock, in ticks
    countries,      \* rows of table country
    technologies,   \* rows of table technology
    config,         \* table automation_config: config_key -> config_value, or NoRow
    posts,          \* rows of table blog_post
    media,          \* rows of table media_asset
    shares,         \* rows of table social_share
    daily_log,      \* ids of the posts the daily cycle logged as published
    result          \* the last operation, its arguments and what it returned

vars == <<is_running, threads, jobs, utc_offset, subscribers, media_service, now, countries,
          technologies, config, posts, media, shares, daily_log, result>>

-----------------------------------------------------------------------------
(* Bounds of the model *)

TicksPerDay == 2
DaysPerMonth == 30
MaxHistory == 2     \* posts of a drawn post history
MaxTechs == 2       \* rows of a drawn technology table
MaxPosts == 2       \* posts the automation creates in a run
MaxTicks == 1       \* ticks the clock advances in a run
MaxTemplates == 2   \* title templates the generator draws from
MaxThreads == 2     \* polling threads created in a run
MaxJobs == 2        \* daily jobs registered at once

-----------------------------------------------------------------------------
(* Values *)

None == [none |-> TRUE]       \* Python's None
Raised == [raised |-> TRUE]   \* an exception was raised
NoRow == "NoRow"              \* Query.first() found no row

(* the calendar *)
\* the time zones of the server: UTC, or one tick ahead of it
UtcOffsets == {0, 1}
\* datetime.utcnow() at the instant datetime.now() reads t
utcnow(t, offset) == t - offset
date(t) == t \div TicksPerDay
time_of_day(t) == t % TicksPerDay
days(n) == n * TicksPerDay
first_day_of_month(d) == (d \div DaysPerMonth) * DaysPerMonth
start_of_month(t) == days(first_day_of_month(date(t)))
\* datetime.replace(day=1): the day becomes 1, the time of day stays
replace_day_1(t) == days(first_day_of_month(date(t))) + time_of_day(t)

(* rows of the seed data *)
Kenya == [id |-> 1, name |-> "Kenya", region |-> "Africa"]
Ghana == [id |-> 5, name |-> "Ghana", region |-> "Africa"]
India == [id |-> 7, name |-> "India", region |-> "Asia"]
Peru == [id |-> 16, name |-> "Peru", region |-> "Latin America"]
Turkey == [id |-> 19, name |-> "Turkey", region |-> "Middle East"]

ArtificialIntelligence == [id |-> 1, name |-> "Artificial Intelligence", category |-> "AI/ML"]
MobileMoney == [id |-> 4, name |-> "Mobile Money", category |-> "Fintech"]
DigitalIdentity == [id |-> 5, name |-> "Digital Identity", category |-> "Government"]
Telemedicine == [id |-> 6, name |-> "Telemedicine", category |-> "Healthcare"]
EdTech == [id |-> 7, name |-> "EdTech", category |-> "Education"]

ConfigKeys == {"daily_posting_enabled", "social_media_auto_share",
               "country_rotation_strategy", "max_posts_per_country_per_month",
               "content_quality_threshold"}

SeedConfig == [k \in ConfigKeys |->
                 CASE k = "daily_posting_enabled" -> "true"
                   [] k = "social_media_auto_share" -> "true"
                   [] k = "country_rotation_strategy" -> "balanced_regional"
                   [] k = "max_posts_per_country_per_month" -> "4"
                   [] k = "content_quality_threshold" -> "0.8"]

(* str.lower() on the configuration values the model uses *)
lower(s) == CASE s = "True" -> "true"
              [] s = "TRUE" -> "true"
              [] s = "False" -> "false"
              [] OTHER -> s

(* int(): the decimal strings parse, anything else raises ValueError *)
int_raises(s) == s \notin {"0", "1", "2", "3", "4"}
int(s) == CASE s = "0" -> 0
            [] s = "1" -> 1
            [] s = "2" -> 2
            [] s = "3" -> 3
            [] s = "4" -> 4

(* float(): the decimal strings parse, anything else raises ValueError *)
float_raises(s) == s \notin {"0.8", "0.5"}

-----------------------------------------------------------------------------
(* ContentGenerator.select_daily_country *)

\* BlogPost.query.filter(country_id == c.id, published_at >= current_month).count()
monthly_posts(c, history, current_month) ==
    Cardinality({p \in history : p.country_id = c.id /\ p.published_at >= current_month})

\* faulty variant: the except branch invents a country for an empty table
select_daily_country_fallback_default(all_countries) ==
    IF all_countries = {} THEN {Kenya} ELSE all_countries

\* faulty variant: the except branch gives up instead of drawing a country
select_daily_country_fallback_gives_up(all_countries) == {None}

\* the except branch: random.choice(countries) if countries else None
select_daily_country_fallback(all_countries) ==
    IF all_countries # {} THEN all_countries ELSE {None}

\* countries under the monthly limit, or every country when none is
available_countries(all_countries, history, max_posts, t) ==
    LET under == {c \in all_countries :
                    monthly_posts(c, history, replace_day_1(t)) < max_posts}
    IN IF under = {} THEN all_countries ELSE under

\* BlogPost.query.filter(country_id.in_(ids), published_at >= current_month).count()
region_posts(members, history, current_month) ==
    Cardinality({p \in history : /\ p.country_id \in {c.id : c \in members}
                                 /\ p.published_at >= current_month})

\* sum(n) of the int n that Query.count() returns: Python's sum() takes an
\* iterable and raises TypeError ("'int' object is not iterable") for every int
sum_raises(n) == n \in Int

\* min(region_counts, key=region_counts.get): the regions of least count
\* (ValueError on an empty dict)
min_region(region_counts) ==
    {r \in DOMAIN region_counts :
       \A q \in DOMAIN region_counts : region_counts[r] <= region_counts[q]}

\* the else branch of the strategy dispatch
balanced_regional(available, history, t) ==
    LET regions == [r \in {c.region : c \in available} |->
                      {c \in available : c.region = r}]
        counts == [r \in DOMAIN regions |->
                     region_posts(regions[r], history, replace_day_1(t))]
    IN IF \E r \in DOMAIN regions : sum_raises(counts[r]) THEN {Raised}
       ELSE IF DOMAIN counts = {} THEN {Raised}
       ELSE UNION {regions[r] : r \in min_region(counts)}

\* the body of the try block: the countries it can return, Raised when it can raise
select_daily_country_try(all_countries, history, cfg, t) ==
    LET strategy == IF cfg["country_rotation_strategy"] = NoRow
                    THEN "balanced_regional"
                    ELSE cfg["country_rotation_strategy"]
        max_config == cfg["max_posts_per_country_per_month"]
        max_posts == IF max_config = NoRow THEN 4 ELSE int(max_config)
        available == available_countries(all_countries, history, max_posts, t)
    IN IF max_config # NoRow /\ int_raises(max_config) THEN {Raised}
       ELSE IF strategy = "random"
            THEN (IF available = {} THEN {Raised} ELSE available)
       ELSE IF strategy = "regional_focus"
            THEN (IF available = {} THEN {Raised}
                  ELSE UNION {{c \in available : c.region = focus_region} :
                                focus_region \in {c.region : c \in available}})
       ELSE balanced_regional(available, history, t)

select_daily_country(all_countries, history, cfg, t) ==
    LET tried == select_daily_country_try(all_countries, history, cfg, t)
    IN (tried \ {Raised}) \cup
       (IF Raised \in tried THEN select_daily_country_fallback(all_countries) ELSE {})

-----------------------------------------------------------------------------
(* ContentGenerator.select_technology_for_country *)

CooldownDays == 30

\* technology_id of the posts of the country published at or after the cutoff
recent_tech_ids(country, history, t) ==
    {p.technology_id : p \in {q \in history : /\ q.country_id = country.id
                                             /\ q.published_at >= t - days(CooldownDays)}}

\* faulty variant: the recent technologies are not excluded
available_techs_ignoring_recent(country, all_technologies, history, t) == all_technologies

\* the technologies not used recently for the country, or every technology when
\* none is left
available_techs(country, all_technologies, history, t) ==
    LET unused == {tech \in all_technologies :
                     tech.id \notin recent_tech_ids(country, history, t)}
    IN IF unused = {} THEN all_technologies ELSE unused

preferred_categories(region) ==
    CASE region = "Africa" -> {"Fintech", "Government", "Agriculture"}
      [] region = "Asia" -> {"AI/ML", "Infrastructure", "Government"}
      [] region = "Latin America" -> {"Fintech", "Education", "Energy"}
      [] OTHER -> {"AI/ML", "Fintech", "Infrastructure"}

\* faulty variant: the candidates are not filtered by category
preferred_techs_unfiltered(country, candidates) == candidates

preferred_techs(country, candidates) ==
    {tech \in candidates : tech.category \in preferred_categories(country.region)}

\* the except branch: random.choice(technologies) if technologies else None
select_technology_fallback(all_technologies) ==
    IF all_technologies # {} THEN all_technologies ELSE {None}

\* faulty variant: no candidate of a preferred category is a failure
select_technology_try_preferred_only(country, all_technologies, history, t) ==
    LET candidates == available_techs(country, all_technologies, history, t)
        preferred == preferred_techs(country, candidates)
    IN IF preferred # {} THEN preferred ELSE {None}

\* the body of the try block; random.choice of an empty list raises IndexError
select_technology_try(country, all_technologies, history, t) ==
    LET candidates == available_techs(country, all_technologies, history, t)
        preferred == preferred_techs(country, candidates)
    IN IF preferred # {} THEN preferred
       ELSE IF candidates # {} THEN candidates
       ELSE {Raised}

select_technology_for_country(country, all_technologies, history, t) ==
    LET tried == select_technology_try(country, all_technologies, history, t)
    IN (tried \ {Raised}) \cup
       (IF Raised \in tried THEN select_technology_fallback(all_technologies) ELSE {})

-----------------------------------------------------------------------------
(* BlogScheduler._quality_check *)

(* A draft (blog_data) has a title, a string; its content, the set of the     *)
(* words of the body; and word_count.  str.lower() and the substring test     *)
(* are tabulated for the words the model uses.                                *)
Vocabulary == {"GDP", "economy", "Biotechnology", "development", "growth"}

lower_word(w) == CASE w = "GDP" -> "gdp"
                   [] w = "Biotechnology" -> "biotechnology"
                   [] w = "Economy" -> "economy"
                   [] OTHER -> w

\* keyword in word, for a lower-case word
substring(keyword, w) ==
    \/ w = keyword
    \/ keyword = "technology" /\ w = "biotechnology"

required_keywords == {"gdp", "economy", "technology", "development"}

\* sum(1 for keyword in required_keywords if keyword in content.lower())
keyword_count(content) ==
    Cardinality({keyword \in required_keywords :
                   \E w \in content : substring(keyword, lower_word(w))})

\* faulty variant: a draft of exactly 800 words is too short
_quality_check_above_800(blog_data) ==
    IF blog_data.word_count <= 800 THEN FALSE
    ELSE IF keyword_count(blog_data.content) < 2 THEN FALSE
    ELSE IF Len(blog_data.title) < 20 THEN FALSE
    ELSE TRUE

_quality_check(blog_data) ==
    IF blog_data.word_count < 800 THEN FALSE
    ELSE IF keyword_count(blog_data.content) < 2 THEN FALSE
    ELSE IF Len(blog_data.title) < 20 THEN FALSE
    ELSE TRUE

\* the warnings _quality_check logs: each test that fails logs its warning and
\* returns at once, so the tests after it do not run
_quality_check_log(blog_data) ==
    IF blog_data.word_count < 800 THEN <<"Content too short">>
    ELSE IF keyword_count(blog_data.content) < 2 THEN <<"Missing required keywords">>
    ELSE IF Len(blog_data.title) < 20 THEN <<"Title too short">>
    ELSE <<"Content passed quality check">>

-----------------------------------------------------------------------------
(* Post histories: rows written through POST /posts, which takes any         *)
(* published_at.  The selection reads their country_id, technology_id and    *)
(* published_at.                                                             *)

rank(u) == (u.country_id * 100 + u.technology_id) * 1000 + u.published_at

\* the histories of at most MaxHistory rows drawn from the universe
Histories(universe) ==
    UNION {{ {[id |-> i, country_id |-> f[i].country_id,
               technology_id |-> f[i].technology_id,
               published_at |-> f[i].published_at] : i \in 1..n} :
             f \in {g \in [1..n -> universe] :
                      \A i \in 1..n : \A j \in 1..n : i < j => rank(g[i]) <= rank(g[j])} } :
           n \in 0..MaxHistory}

-----------------------------------------------------------------------------
(* CountrySpec: select_daily_country on drawn tables, configurations,        *)
(* histories and clocks                                                      *)

CountryTables == {{}, {Kenya, India}, {Kenya, Ghana, India}}
Strategies == {"random", "regional_focus", "balanced_regional", "round_robin", NoRow}
Maxima == {"1", "2", "many", NoRow}

\* the second day of a month, at the first and at the last tick of the day
CountryNows == {days(DaysPerMonth + 1), days(DaysPerMonth + 1) + (TicksPerDay - 1)}

\* just before the month, its first instant, the same time of day on day 1, now
CountryInstants(t) == {start_of_month(t) - 1, start_of_month(t), replace_day_1(t), t}

CountryInit ==
    /\ is_running = FALSE
    /\ threads = << >>
    /\ jobs = 0
    /\ utc_offset = 0
    /\ subscribers = {}
    /\ media_service = TRUE
    /\ now \in CountryNows
    /\ countries \in CountryTables
    /\ technologies = {MobileMoney}
    /\ config \in {[SeedConfig EXCEPT !["country_rotation_strategy"] = s,
                                      !["max_posts_per_country_per_month"] = m] :
                     s \in Strategies, m \in Maxima}
    /\ posts \in Histories({[country_id |-> c.id, technology_id |-> MobileMoney.id,
                             published_at |-> at] :
                              c \in {Kenya, Ghana, India}, at \in CountryInstants(now)})
    /\ media = {}
    /\ shares = {}
    /\ daily_log = {}
    /\ result = [op |-> "none"]

SelectCountry ==
    /\ \E country \in select_daily_country(countries, posts, config, now) :
         result' = [op |-> "select_daily_country", value |-> country]
    /\ UNCHANGED <<is_running, threads, jobs, utc_offset, subscribers, media_service, now,
                   countries, technologies, config, posts, media, shares, daily_log>>

CountryNext == SelectCountry

CountrySpec == CountryInit /\ [][CountryNext]_vars

(* What the specification calls the policy and the monthly count: the posts   *)
(* of a country published at or after the first instant of the current month. *)
PolicyStrategy == config["country_rotation_strategy"]
PolicyMaxReadable ==
    \/ config["max_posts_per_country_per_month"] = NoRow
    \/ ~int_raises(config["max_posts_per_country_per_month"])
PolicyMax == IF config["max_posts_per_country_per_month"] = NoRow THEN 4
             ELSE int(config["max_posts_per_country_per_month"])
MonthlyCount(c) ==
    Cardinality({p \in posts : p.country_id = c.id /\ p.published_at >= start_of_month(now)})
Eligible ==
    LET under == {c \in countries : MonthlyCount(c) < PolicyMax}
    IN IF under = {} THEN countries ELSE under
RegionSum(r) ==
    Cardinality({p \in posts : /\ p.published_at >= start_of_month(now)
                               /\ \E c \in Eligible : c.region = r /\ c.id = p.country_id})

SelectedCountry == result.op = "select_daily_country" /\ result.value \in countries

\* C3 (as claimed): whenever some country is under the monthly maximum, the
\* country select_daily_country returns is under the monthly maximum, for every
\* strategy.
C3_QuotaRespected ==
    (SelectedCountry /\ PolicyMaxReadable /\ \E c \in countries : MonthlyCount(c) < PolicyMax)
        => MonthlyCount(result.value) < PolicyMax

\* C4 (as claimed): under balanced_regional, and under a missing or unrecognised
\* strategy, the returned country belongs to a region of the eligible set whose
\* summed monthly count over its eligible countries is minimal.
C4_RegionalBalance ==
    (SelectedCountry /\ PolicyMaxReadable /\ PolicyStrategy \notin {"random", "regional_focus"})
        => /\ result.value \in Eligible
           /\ \A c \in Eligible : RegionSum(result.value.region) <= RegionSum(c.region)

\* C6: for a non-empty country table, whatever the strategy, the maximum and the
\* history, select_daily_country returns a row of the country table, never None.
C6_ReturnsCountryOfTable ==
    (result.op = "select_daily_country" /\ countries # {}) => result.value \in countries

\* C6 witness: a country was returned under an unrecognised strategy and a
\* maximum that is not a number, with posts in the history.
C6_Witness ==
    /\ SelectedCountry
    /\ config["country_rotation_strategy"] = "round_robin"
    /\ config["max_posts_per_country_per_month"] = "many"
    /\ posts # {}

-----------------------------------------------------------------------------
(* TechSpec: select_technology_for_country on drawn technology tables,       *)
(* countries and histories                                                   *)

TechCountries == {Kenya, India, Peru, Turkey}
TechUniverse == {ArtificialIntelligence, MobileMoney, DigitalIdentity, Telemedicine, EdTech}
TechTables == {table \in SUBSET TechUniverse : Cardinality(table) <= MaxTechs}

TechNow == days(2 * DaysPerMonth)

\* just outside the cooldown window, and its first instant
TechInstants(t) == {t - days(CooldownDays) - 1, t - days(CooldownDays)}

TechInit ==
    /\ is_running = FALSE
    /\ threads = << >>
    /\ jobs = 0
    /\ utc_offset = 0
    /\ subscribers = {}
    /\ media_service = TRUE
    /\ now = TechNow
    /\ countries = TechCountries
    /\ technologies \in TechTables
    /\ config = SeedConfig
    /\ posts \in Histories({[country_id |-> c.id, technology_id |-> tech.id,
                             published_at |-> at] :
                              c \in {Kenya, India}, tech \in technologies,
                              at \in TechInstants(now)})
    /\ media = {}
    /\ shares = {}
    /\ daily_log = {}
    /\ result = [op |-> "none"]

SelectTechnology ==
    /\ \E country \in countries :
         \E tech \in select_technology_for_country(country, technologies, posts, now) :
           result' = [op |-> "select_technology_for_country",
                      country |-> country, value |-> tech]
    /\ UNCHANGED <<is_running, threads, jobs, utc_offset, subscribers, media_service, now,
                   countries, technologies, config, posts, media, shares, daily_log>>

TechNext == SelectTechnology

TechSpec == TechInit /\ [][TechNext]_vars

SelectedTechnology ==
    result.op = "select_technology_for_country" /\ result.value \in technologies

\* the technologies with a post for the country published within the last
\* CooldownDays days
InCooldown(country) ==
    {tech \in technologies :
       \E p \in posts : /\ p.country_id = country.id
                        /\ p.technology_id = tech.id
                        /\ now - p.published_at <= days(CooldownDays)}

\* C5 (as claimed): the returned technology has no post for the country within
\* the cooldown window, unless it is the only technology of the table.
C5_CooldownUnlessOnlyTechnology ==
    (SelectedTechnology /\ result.value \in InCooldown(result.country))
        => technologies = {result.value}

\* C5 (amended): the returned technology has no post for the country within the
\* cooldown window, unless every technology of the table has one.
C5_CooldownUnlessAllInCooldown ==
    (SelectedTechnology /\ result.value \in InCooldown(result.country))
        => InCooldown(result.country) = technologies

\* C5 witness: one technology of two is in cooldown for the country and the
\* other one was returned.
C5_Witness ==
    /\ SelectedTechnology
    /\ Cardinality(technologies) = 2
    /\ Cardinality(InCooldown(result.country)) = 1
    /\ result.value \notin InCooldown(result.country)

\* C7: for a non-empty technology table select_technology_for_country returns a
\* technology of the table, never None.
C7_ReturnsTechnologyOfTable ==
    (result.op = "select_technology_for_country" /\ technologies # {})
        => result.value \in technologies

\* C7 witness: both fallbacks at once: every technology is in cooldown for the
\* country and none has a preferred category, and a technology was returned.
C7_Witness ==
    /\ SelectedTechnology
    /\ result.country = Kenya
    /\ technologies = {Telemedicine, EdTech}
    /\ InCooldown(Kenya) = technologies

\* the preferred categories as the specification lists them
PreferredList(region) ==
    IF region = "Africa" THEN {"Fintech", "Government", "Agriculture"}
    ELSE IF region = "Asia" THEN {"AI/ML", "Infrastructure", "Government"}
    ELSE IF region = "Latin America" THEN {"Fintech", "Education", "Energy"}
    ELSE {"AI/ML", "Fintech", "Infrastructure"}

\* the technologies outside cooldown, or all of them when none is
Candidates(country) ==
    IF technologies \ InCooldown(country) = {} THEN technologies
    ELSE technologies \ InCooldown(country)

\* C8: when some candidate has a category of the preferred list of the country's
\* region, the returned technology has a category of that list.
C8_PreferredCategoryFirst ==
    (SelectedTechnology /\ \E tech \in Candidates(result.country) :
                             tech.category \in PreferredList(result.country.region))
        => result.value.category \in PreferredList(result.country.region)

\* C8 witness: a candidate outside the list stood next to a preferred one, and
\* the preferred one was returned.
C8_Witness ==
    /\ SelectedTechnology
    /\ \E tech \in Candidates(result.country) :
         tech.category \notin PreferredList(result.country.region)
    /\ result.value.category \in PreferredList(result.country.region)

-----------------------------------------------------------------------------
(* GateSpec: _quality_check on drawn drafts                                  *)

GateTitles == {"Nineteen characters", "Twenty characters!!!",
               "How Mobile Money Changes Everything"}
GateWordCounts == {50, 799, 800, 1000}

GateInit ==
    /\ is_running = FALSE
    /\ threads = << >>
    /\ jobs = 0
    /\ utc_offset = 0
    /\ subscribers = {}
    /\ media_service = TRUE
    /\ now = 0
    /\ countries = {}
    /\ technologies = {}
    /\ config = SeedConfig
    /\ posts = {}
    /\ media = {}
    /\ shares = {}
    /\ daily_log = {}
    /\ result \in {[op |-> "draft",
                    blog_data |-> [title |-> title, content |-> content,
                                   word_count |-> word_count]] :
                     title \in GateTitles, content \in SUBSET Vocabulary,
                     word_count \in GateWordCounts}

QualityCheck ==
    /\ result.op = "draft"
    /\ result' = [op |-> "_quality_check", blog_data |-> result.blog_data,
                  value |-> _quality_check(result.blog_data),
                  log |-> _quality_check_log(result.blog_data)]
    /\ UNCHANGED <<is_running, threads, jobs, utc_offset, subscribers, media_service, now,
                   countries, technologies, config, posts, media, shares, daily_log>>

GateNext == QualityCheck

GateSpec == GateInit /\ [][GateNext]_vars

\* the words of the vocabulary in which a keyword occurs, whatever the case
WordsWith(keyword) ==
    IF keyword = "gdp" THEN {"GDP"}
    ELSE IF keyword = "economy" THEN {"economy"}
    ELSE IF keyword = "technology" THEN {"Biotechnology"}
    ELSE {"development"}

KeywordsPresent(content) ==
    {keyword \in {"gdp", "economy", "technology", "development"} :
       content \cap WordsWith(keyword) # {}}

\* C9: the gate accepts a draft exactly when it has at least 800 words, at least
\* 2 of the 4 keywords occur in its body whatever their case, and its title has
\* at least 20 characters.
C9_GateAcceptsExactly ==
    result.op = "_quality_check"
        => (result.value = TRUE
              <=> /\ result.blog_data.word_count >= 800
                  /\ Cardinality(KeywordsPresent(result.blog_data.content)) >= 2
                  /\ Len(result.blog_data.title) >= 20)

\* C9 witness: 800 words, 2 keywords (one in capitals) and a title of 20
\* characters are accepted.
C9_Witness ==
    /\ result.op = "_quality_check"
    /\ result.blog_data.word_count = 800
    /\ result.blog_data.content = {"GDP", "development"}
    /\ Len(result.blog_data.title) = 20
    /\ result.value = TRUE

-----------------------------------------------------------------------------
(* ContentGenerator.generate_blog_post and what it calls *)

title_templates(country, technology) ==
    << "How " \o technology.name \o " is Revolutionizing " \o country.name \o "'s Economy",
       country.name \o "'s " \o technology.name
           \o " Transformation: A Development Success Story",
       "From Challenge to Opportunity: " \o technology.name \o " in " \o country.name,
       country.name \o " Leads the Way: " \o technology.name \o " Driving Economic Growth",
       "The " \o technology.name \o " Revolution: Transforming Lives in " \o country.name >>

\* random.choice(title_templates), among the first MaxTemplates templates
_generate_title(country, technology) ==
    {title_templates(country, technology)[i] :
       i \in {j \in 1..Len(title_templates(country, technology)) : j <= MaxTemplates}}

_generate_fallback_content(country, technology) ==
    [title |-> technology.name \o " Transformation in " \o country.name,
     content |-> {"placeholder", "automated", "schedule"},
     word_count |-> 50]

\* what the completion API answers: a body of 1200 words with keywords, or a
\* body that is too short
GeneratedBodies == {[content |-> {"GDP", "economy", "growth"}, word_count |-> 1200],
                    [content |-> {"GDP", "economy"}, word_count |-> 600]}

\* the drafts generate_blog_post can return: one made from the answer of the
\* API, or the fallback content when the call raises
generate_blog_post(country, technology) ==
    {[title |-> title, content |-> body.content, word_count |-> body.word_count] :
       title \in _generate_title(country, technology), body \in GeneratedBodies}
    \cup {_generate_fallback_content(country, technology)}

-----------------------------------------------------------------------------
(* BlogScheduler._create_slug: title.lower(), the characters that are neither *)
(* word characters, spaces nor hyphens removed, runs of spaces and hyphens    *)
(* made one hyphen; tabulated through the names of the seed data              *)

slug_of_name(name) ==
    CASE name = "Kenya" -> "kenya"
      [] name = "Ghana" -> "ghana"
      [] name = "India" -> "india"
      [] name = "Peru" -> "peru"
      [] name = "Turkey" -> "turkey"
      [] name = "Artificial Intelligence" -> "artificial-intelligence"
      [] name = "Mobile Money" -> "mobile-money"
      [] name = "Digital Identity" -> "digital-identity"
      [] name = "Telemedicine" -> "telemedicine"
      [] name = "EdTech" -> "edtech"

SlugTable ==
    LET c(country) == slug_of_name(country.name)
        t(technology) == slug_of_name(technology.name)
    IN UNION {
         { [title |-> title_templates(country, technology)[1],
            slug |-> "how-" \o t(technology) \o "-is-revolutionizing-" \o c(country)
                       \o "s-economy"],
           [title |-> title_templates(country, technology)[2],
            slug |-> c(country) \o "s-" \o t(technology)
                       \o "-transformation-a-development-success-story"],
           [title |-> title_templates(country, technology)[3],
            slug |-> "from-challenge-to-opportunity-" \o t(technology) \o "-in-" \o c(country)],
           [title |-> title_templates(country, technology)[4],
            slug |-> c(country) \o "-leads-the-way-" \o t(technology)
                       \o "-driving-economic-growth"],
           [title |-> title_templates(country, technology)[5],
            slug |-> "the-" \o t(technology) \o "-revolution-transforming-lives-in-"
                       \o c(country)],
           [title |-> _generate_fallback_content(country, technology).title,
            slug |-> t(technology) \o "-transformation-in-" \o c(country)] } :
         country \in {Kenya, Ghana, India, Peru, Turkey},
         technology \in {ArtificialIntelligence, MobileMoney, DigitalIdentity,
                         Telemedicine, EdTech} }

_create_slug(title) == (CHOOSE row \in SlugTable : row.title = title).slug

-----------------------------------------------------------------------------
(* BlogScheduler: the daily cycle and the manual trigger *)

\* the value of a boolean key as _load_automation_config reads it from its row,
\* True when the row is missing
config_flag(cfg, key) ==
    IF cfg[key] = NoRow THEN TRUE ELSE lower(cfg[key]) = "true"

\* faulty variant: a load that fails keeps what the store says
_load_automation_config_strict(cfg) ==
    [daily_posting_enabled |-> config_flag(cfg, "daily_posting_enabled"),
     auto_social_share |-> config_flag(cfg, "social_media_auto_share")]

\* _load_automation_config: the settings the scheduler works with after a load;
\* when reading a row raises (float() of the threshold) all of them are set to
\* their defaults
_load_automation_config(cfg) ==
    IF cfg["content_quality_threshold"] # NoRow
         /\ float_raises(cfg["content_quality_threshold"])
    THEN [daily_posting_enabled |-> TRUE, auto_social_share |-> TRUE]
    ELSE [daily_posting_enabled |-> config_flag(cfg, "daily_posting_enabled"),
          auto_social_share |-> config_flag(cfg, "social_media_auto_share")]

\* BlogPost.query.filter(db.func.date(BlogPost.published_at) == today)
existing_post(history, t) == {p \in history : date(p.published_at) = date(t)}

\* the primary key the store gives the next row
next_id(rows) ==
    IF rows = {} THEN 1
    ELSE (CHOOSE r \in rows : \A q \in rows : q.id <= r.id).id + 1

\* Query.get(id): the row of that id, or None
get(rows, id) == IF \E r \in rows : r.id = id THEN CHOOSE r \in rows : r.id = id ELSE None

\* the BlogPost row _create_blog_post builds
blog_post_row(country, technology, blog_data, history, t) ==
    [id |-> next_id(history),
     title |-> blog_data.title,
     slug |-> _create_slug(blog_data.title),
     content |-> blog_data.content,
     word_count |-> blog_data.word_count,
     country_id |-> country.id,
     technology_id |-> technology.id,
     published_at |-> t]

\* the MediaAsset rows _create_blog_post builds
media_asset_rows(post_id, media_assets) ==
    {[blog_post_id |-> post_id, asset_type |-> media_assets[i], order_index |-> i] :
       i \in 1..Len(media_assets)}

\* faulty variant: the store does not enforce the uniqueness of the slug
_create_blog_post_raises_on_failure_only(blog_data, history, storage_ok) == ~storage_ok

\* _create_blog_post raises when the store fails (storage_ok is FALSE), which
\* can happen at any commit, or refuses the rows: slug is unique
_create_blog_post_raises(blog_data, history, storage_ok) ==
    \/ ~storage_ok
    \/ \E p \in history : p.slug = _create_slug(blog_data.title)

\* faulty variant: the assets generated before the failure are kept
generate_post_media_partial(service) == <<"image">>

\* what generate_post_media returns: the assets, or [] when generating fails
generate_post_media(service) == IF service THEN <<"image">> ELSE << >>

platforms == <<"twitter", "linkedin", "facebook">>

\* the SocialShare rows of _schedule_social_sharing: 30 * (i + 1) minutes after
\* utcnow() for the i-th platform, i counted from 0
social_share_rows(post_id, t) ==
    {[blog_post_id |-> post_id, platform |-> platforms[i + 1],
      scheduled_at |-> [at |-> t, minutes |-> 30 * (i + 1)],
      status |-> "scheduled"] : i \in 0..(Len(platforms) - 1)}

\* _create_blog_post: the post and its media rows are committed together
Create(country, technology, blog_data, media_assets) ==
    LET row == blog_post_row(country, technology, blog_data, posts,
                             utcnow(now, utc_offset))
    IN /\ Cardinality(posts) < MaxPosts
       /\ posts' = posts \cup {row}
       /\ media' = media \cup media_asset_rows(row.id, media_assets)

\* _generate_daily_post returns nothing: what it did is in the store and the log
Logged(events) == result' = [op |-> "_generate_daily_post", value |-> None, log |-> events]

\* _schedule_social_sharing: the three rows are added and committed at once; an
\* exception is logged and swallowed, and the cycle goes on
_schedule_social_sharing(post_id, shares_ok, logged) ==
    IF shares_ok
    THEN /\ shares' = shares \cup social_share_rows(post_id, utcnow(now, utc_offset))
         /\ Logged(logged \o <<"Scheduled social sharing",
                                "Successfully generated and published">>)
    ELSE /\ shares' = shares
         /\ Logged(logged \o <<"Error scheduling social sharing",
                                "Successfully generated and published">>)

\* what generate_blog_post and generate_post_media log before the cycle goes on
draft_log(country, technology, blog_data) ==
    IF blog_data = _generate_fallback_content(country, technology)
    THEN <<"Error generating blog post">> ELSE << >>

media_log(service) == IF service THEN << >> ELSE <<"Error generating media assets">>

\* faulty variant: the rejected draft is persisted all the same
quality_rejected_but_persisted(country, technology, blog_data, logged) ==
    /\ Logged(logged \o <<"Generated content failed quality check">>)
    /\ Create(country, technology, blog_data, generate_post_media(media_service))
    /\ UNCHANGED <<shares, daily_log>>

\* the gate rejects the draft: a warning, and the cycle returns
quality_rejected(country, technology, blog_data, logged) ==
    /\ Logged(logged \o <<"Generated content failed quality check">>)
    /\ UNCHANGED <<posts, media, shares, daily_log>>

\* faulty variant: the post row stays although the commit failed
creation_failed_without_rollback(country, technology, blog_data, logged) ==
    /\ Logged(logged \o <<"Error creating blog post", "Error generating daily post">>)
    /\ Create(country, technology, blog_data, << >>)
    /\ UNCHANGED <<shares, daily_log>>

\* _create_blog_post raises: it rolls the session back and raises again, and the
\* cycle logs the error and ends
creation_failed(country, technology, blog_data, logged) ==
    /\ Logged(logged \o <<"Error creating blog post", "Error generating daily post">>)
    /\ UNCHANGED <<posts, media, shares, daily_log>>

\* the cycle after its checks: selection, draft, gate, media, creation and
\* share scheduling
generate_and_publish ==
    \E country \in select_daily_country(countries, posts, config, now) :
      \/ /\ country = None
         /\ Logged(<<"No country selected for daily post">>)
         /\ UNCHANGED <<posts, media, shares, daily_log>>
      \/ /\ country # None
         /\ \E technology \in
                 select_technology_for_country(country, technologies, posts, now) :
              \/ /\ technology = None
                 /\ Logged(<<"No technology selected">>)
                 /\ UNCHANGED <<posts, media, shares, daily_log>>
              \/ /\ technology # None
                 /\ \E blog_data \in generate_blog_post(country, technology) :
                      LET drafted == draft_log(country, technology, blog_data)
                          prepared == drafted \o media_log(media_service)
                      IN
                      \/ /\ ~_quality_check(blog_data)
                         /\ quality_rejected(country, technology, blog_data, drafted)
                      \/ /\ _quality_check(blog_data)
                         /\ _create_blog_post_raises(blog_data, posts, FALSE)
                         /\ creation_failed(country, technology, blog_data, prepared)
                      \/ /\ _quality_check(blog_data)
                         /\ ~_create_blog_post_raises(blog_data, posts, TRUE)
                         /\ Create(country, technology, blog_data,
                                   generate_post_media(media_service))
                         /\ daily_log' = daily_log \cup {next_id(posts)}
                         /\ \/ /\ ~_load_automation_config(config).auto_social_share
                               /\ shares' = shares
                               /\ Logged(prepared \o
                                         <<"Successfully generated and published">>)
                            \/ /\ _load_automation_config(config).auto_social_share
                               /\ \E shares_ok \in BOOLEAN :
                                    _schedule_social_sharing(next_id(posts), shares_ok,
                                                             prepared)

_generate_daily_post ==
    \/ /\ ~_load_automation_config(config).daily_posting_enabled
       /\ Logged(<<"Daily posting is disabled, skipping generation">>)
       /\ UNCHANGED <<posts, media, shares, daily_log>>
    \/ /\ _load_automation_config(config).daily_posting_enabled
       /\ existing_post(posts, now) # {}
       /\ Logged(<<"Post already exists for today">>)
       /\ UNCHANGED <<posts, media, shares, daily_log>>
    \/ /\ _load_automation_config(config).daily_posting_enabled
       /\ existing_post(posts, now) = {}
       /\ generate_and_publish

DailyCycle ==
    /\ _generate_daily_post
    /\ UNCHANGED <<is_running, threads, jobs, utc_offset, subscribers, media_service, now,
                   countries, technologies, config>>

Returned(success, error) ==
    result' = [op |-> "trigger_manual_generation",
               value |-> [success |-> success, error |-> error]]

trigger_manual_generation(country_id, technology_id) ==
    \E country \in (IF country_id # 0 THEN {get(countries, country_id)}
                    ELSE select_daily_country(countries, posts, config, now)) :
       \/ /\ country = None
          /\ Returned(FALSE, "No country found")
          /\ UNCHANGED <<posts, media>>
       \/ /\ country # None
          /\ \E technology \in
                  (IF technology_id # 0 THEN {get(technologies, technology_id)}
                   ELSE select_technology_for_country(country, technologies, posts, now)) :
               \/ /\ technology = None
                  /\ Returned(FALSE, "No technology found")
                  /\ UNCHANGED <<posts, media>>
               \/ /\ technology # None
                  /\ \E blog_data \in generate_blog_post(country, technology) :
                       \/ /\ _create_blog_post_raises(blog_data, posts, FALSE)
                          /\ Returned(FALSE, "str(e)")
                          /\ UNCHANGED <<posts, media>>
                       \/ /\ ~_create_blog_post_raises(blog_data, posts, TRUE)
                          /\ Create(country, technology, blog_data,
                                      generate_post_media(media_service))
                          /\ Returned(TRUE, "")

\* the ids a request can name: none (0), a row of the seed data, or no row
Requests ==
    {[country_id |-> 0, technology_id |-> 0],
     [country_id |-> Kenya.id, technology_id |-> MobileMoney.id],
     [country_id |-> 99, technology_id |-> 0],
     [country_id |-> 0, technology_id |-> 99]}

ManualTrigger ==
    /\ \E request \in Requests :
         trigger_manual_generation(request.country_id, request.technology_id)
    /\ UNCHANGED <<is_running, threads, jobs, utc_offset, subscribers, media_service, now,
                   countries, technologies, config, shares, daily_log>>

-----------------------------------------------------------------------------
(* BlogScheduler: start_scheduler, stop_scheduler and the polling loop.  A     *)
(* thread is at the test of its while loop ("test"), inside                    *)
(* schedule.run_pending() ("run_pending"), in time.sleep(60) ("sleep"), or it *)
(* has returned ("done").                                                      *)

the_scheduler == [is_running |-> is_running, threads |-> threads, jobs |-> jobs]

\* the polling loops that have not returned
running_loops(ths) == {i \in DOMAIN ths : ths[i] # "done"}

\* _schedule_daily_tasks registers the daily job when daily posting is enabled
\* and then asks the schedule module for every().month, which the module grants
\* or answers with AttributeError, as the installed package decides
_schedule_daily_tasks(s, cfg) ==
    [s EXCEPT !.jobs = IF _load_automation_config(cfg).daily_posting_enabled
                       THEN @ + 1 ELSE @]

\* stop_scheduler on a running scheduler: the flag is lowered, the last thread
\* is joined for 5 seconds, in which it returns only if it reaches the test of
\* its loop (joined), and the schedule is cleared
stop_scheduler(s, joined) ==
    IF ~s.is_running THEN s
    ELSE [is_running |-> FALSE,
          threads |-> IF joined /\ s.threads # << >>
                      THEN [s.threads EXCEPT ![Len(s.threads)] = "done"]
                      ELSE s.threads,
          jobs |-> 0]

\* whether the last thread returns within the 5 seconds of the join: it does at
\* the test of its loop, it may when its sleep of 60 seconds is about to end, it
\* does not inside run_pending, after which it sleeps
join_outcomes(s) ==
    IF s.threads = << >> THEN {FALSE}
    ELSE LET at == s.threads[Len(s.threads)]
         IN IF at \in {"test", "done"} THEN {TRUE}
            ELSE IF at = "sleep" THEN {TRUE, FALSE}
            ELSE {FALSE}

\* faulty variant: a second start while running starts a second thread
start_scheduler_unguarded(s, cfg, has_month) ==
    LET scheduled == _schedule_daily_tasks(s, cfg)
    IN IF ~has_month THEN scheduled
       ELSE [scheduled EXCEPT !.is_running = TRUE, !.threads = Append(@, "test")]

\* start_scheduler: nothing when already running; else the tasks are scheduled,
\* the flag is raised and a new thread starts at the test of its loop.  When
\* every().month raises, the jobs registered so far stay, the flag stays down
\* and no thread is started.
start_scheduler(s, cfg, has_month) ==
    IF s.is_running THEN s
    ELSE LET scheduled == _schedule_daily_tasks(s, cfg)
         IN IF ~has_month THEN scheduled
            ELSE [scheduled EXCEPT !.is_running = TRUE, !.threads = Append(@, "test")]

start_scheduler_raises(s, has_month) == ~s.is_running /\ ~has_month

becomes(s) ==
    /\ is_running' = s.is_running
    /\ threads' = s.threads
    /\ jobs' = s.jobs

\* POST /automation/start
StartScheduler ==
    /\ Len(threads) < MaxThreads
    /\ jobs < MaxJobs
    /\ \E has_month \in BOOLEAN :
         /\ becomes(start_scheduler(the_scheduler, config, has_month))
         /\ result' = [op |-> "start_scheduler",
                       value |-> IF start_scheduler_raises(the_scheduler, has_month)
                                 THEN Raised ELSE None]
    /\ UNCHANGED <<utc_offset, subscribers, media_service, now, countries, technologies, config, posts,
                   media, shares, daily_log>>

\* POST /automation/stop
StopScheduler ==
    /\ \E joined \in join_outcomes(the_scheduler) :
         becomes(stop_scheduler(the_scheduler, joined))
    /\ result' = [op |-> "stop_scheduler", value |-> None]
    /\ UNCHANGED <<utc_offset, subscribers, media_service, now, countries, technologies, config, posts,
                   media, shares, daily_log>>

\* _run_scheduler: while self.is_running: schedule.run_pending(); time.sleep(60)
_run_scheduler(i) ==
    \/ /\ threads[i] = "test"
       /\ threads' = [threads EXCEPT ![i] = IF is_running THEN "run_pending" ELSE "done"]
    \/ /\ threads[i] = "run_pending"
       /\ threads' = [threads EXCEPT ![i] = "sleep"]
    \/ /\ threads[i] = "sleep"
       /\ threads' = [threads EXCEPT ![i] = "test"]

PollingLoop ==
    /\ \E i \in DOMAIN threads : _run_scheduler(i)
    /\ result' = [op |-> "none"]
    /\ UNCHANGED <<is_running, jobs, utc_offset, subscribers, media_service, now, countries, technologies,
                   config, posts, media, shares, daily_log>>

\* update_automation_config: the row of the key is written and committed; when
\* the key is a critical setting and the scheduler is running, the scheduler is
\* stopped and started again
critical_settings == {"daily_posting_enabled", "posting_time"}

update_automation_config(key, value) ==
    /\ config' = [config EXCEPT ![key] = value]
    /\ IF key \in critical_settings /\ is_running
       THEN /\ Len(threads) < MaxThreads
            /\ \E joined \in join_outcomes(the_scheduler),
                  has_month \in BOOLEAN :
                 becomes(start_scheduler(stop_scheduler(the_scheduler, joined),
                                         config', has_month))
       ELSE UNCHANGED <<is_running, threads, jobs>>
    /\ result' = [op |-> "none"]
    /\ UNCHANGED <<utc_offset, subscribers, media_service, now, countries, technologies, posts, media,
                   shares, daily_log>>

\* the settings a request changes
ConfigUpdates ==
    {[key |-> key, value |-> value] :
       key \in {"daily_posting_enabled", "social_media_auto_share"},
       value \in {"true", "false"}}

UpdateConfig == \E update \in ConfigUpdates : update_automation_config(update.key, update.value)

\* the clock advances
Tick ==
    /\ now < days(DaysPerMonth) + MaxTicks
    /\ now' = now + 1
    /\ result' = [op |-> "none"]
    /\ UNCHANGED <<is_running, threads, jobs, utc_offset, subscribers, media_service, countries,
                   technologies, config, posts, media, shares, daily_log>>

\* the store as seeded, or with an empty table, at the first tick of a month, on a
\* server in UTC or ahead of it, with the image service up or down
Init ==
    /\ is_running = FALSE
    /\ threads = << >>
    /\ jobs = 0
    /\ utc_offset \in UtcOffsets
    /\ subscribers = {}
    /\ media_service \in BOOLEAN
    /\ now = days(DaysPerMonth)
    /\ countries \in {{}, {Kenya}}
    /\ technologies \in {{}, {MobileMoney}}
    /\ config = SeedConfig
    /\ posts = {}
    /\ media = {}
    /\ shares = {}
    /\ daily_log = {}
    /\ result = [op |-> "none"]

Next == DailyCycle \/ ManualTrigger \/ UpdateConfig \/ Tick

Spec == Init /\ [][Next]_vars

\* the scheduler alone: daily cycles, configuration updates and the clock, with no
\* manual request
CycleNext == DailyCycle \/ UpdateConfig \/ Tick

CycleSpec == Init /\ [][CycleNext]_vars

\* the scheduler's life cycle: requests to start, stop and reconfigure it, and
\* the steps of its polling loops
SchedulerNext == StartScheduler \/ StopScheduler \/ UpdateConfig \/ PollingLoop

SchedulerSpec == Init /\ [][SchedulerNext]_vars

-----------------------------------------------------------------------------
(* The daily cycle and the manual trigger: one post per day, gated drafts *)

\* the draft a post row was created from
draft_of(p) == [title |-> p.title, content |-> p.content, word_count |-> p.word_count]

\* the posts the daily cycle wrote
daily_posts == {p \in posts : p.id \in daily_log}

\* C1: invoking the daily cycle twice on the same calendar day leaves exactly one
\* post of the daily cycle for that day: no two posts written by the daily cycle
\* are dated the same day, the second invocation having found the post of the
\* first.
C1_DailyCycleIdempotent ==
    \A p \in daily_posts, q \in daily_posts :
       date(p.published_at) = date(q.published_at) => p = q

\* C2: after any sequence of daily cycles and manual triggers the store holds at
\* most one post per calendar day.
C2_OnePostPerDay ==
    \A p \in posts, q \in posts :
       date(p.published_at) = date(q.published_at) => p.id = q.id

\* C10: every post the automation created, by the daily cycle or by the manual
\* trigger, comes from a draft that the quality gate accepts.
C10_PersistedPostsPassedGate ==
    \A p \in posts : _quality_check(draft_of(p))

-----------------------------------------------------------------------------
(* The daily cycle step by step: what a cycle logged against what it wrote *)

\* the last operation was a daily cycle that logged the event
cycle_logged(event) ==
    /\ result.op = "_generate_daily_post"
    /\ \E i \in DOMAIN result.log : result.log[i] = event

\* C11: when the draft generator raises, the fallback draft is substituted and the
\* daily cycle still produces a post: a cycle that logged the generator's error
\* went on to publish.
C11_FallbackStillPublishes ==
    cycle_logged("Error generating blog post")
        => cycle_logged("Successfully generated and published")

\* C12: a daily cycle whose draft the gate rejects writes no post, media or share
\* row, does not generate a second draft, and ends with the rejection.
C12_RejectedCycleWritesNothing ==
    [][(/\ result'.op = "_generate_daily_post"
        /\ \E i \in DOMAIN result'.log :
             result'.log[i] = "Generated content failed quality check")
         => /\ UNCHANGED <<posts, media, shares, daily_log>>
            /\ result'.log[Len(result'.log)] = "Generated content failed quality check"
            /\ Cardinality({i \in DOMAIN result'.log :
                              result'.log[i] = "Error generating blog post"}) <= 1
            /\ Len(result'.log) <= 2]_vars

\* C12 witness: a cycle rejected a draft the generator made (too short), and
\* the day still has no post.
C12_Witness ==
    /\ result.op = "_generate_daily_post"
    /\ result.log = <<"Generated content failed quality check">>
    /\ countries # {} /\ technologies # {}
    /\ existing_post(posts, now) = {}

\* C13: post creation is all-or-nothing: a cycle whose _create_blog_post fails
\* leaves the store without the post, without any of its media rows and without
\* share rows, and ends with the error.
C13_FailedCreationWritesNothing ==
    [][(/\ result'.op = "_generate_daily_post"
        /\ \E i \in DOMAIN result'.log : result'.log[i] = "Error creating blog post")
         => /\ UNCHANGED <<posts, media, shares, daily_log>>
            /\ result'.log[Len(result'.log)] = "Error generating daily post"]_vars

\* C13 witness: the creation failed in a cycle that had media assets to write,
\* and the store holds no row.
C13_Witness ==
    /\ cycle_logged("Error creating blog post")
    /\ media_service
    /\ posts = {} /\ media = {} /\ shares = {}

-----------------------------------------------------------------------------
(* The scheduler's life cycle *)

\* C14: after any sequence of start_scheduler, stop_scheduler and configuration
\* updates at most one polling loop is running due jobs: no two threads are inside
\* schedule.run_pending() at the same time.
C14_OnePollingLoop ==
    Cardinality({i \in DOMAIN threads : threads[i] = "run_pending"}) <= 1

-----------------------------------------------------------------------------
(* The daily cycle on empty tables *)

\* C15: with an empty country table select_daily_country yields None, with an
\* empty technology table select_technology_for_country yields None, and a daily
\* cycle on either writes no post, media or share row and ends with the error of
\* the selection it could not make.
C15_EmptyTablesWriteNothing ==
    [][(result'.op = "_generate_daily_post" /\ (countries = {} \/ technologies = {}))
         => /\ UNCHANGED <<posts, media, shares, daily_log>>
            /\ countries = {}
                 => select_daily_country(countries, posts, config, now) = {None}
            /\ technologies = {}
                 => \A country \in countries \cup {Kenya} :
                      select_technology_for_country(country, technologies, posts, now)
                        = {None}
            /\ (config_flag(config, "daily_posting_enabled") /\ existing_post(posts, now) = {})
                 => result'.log = IF countries = {}
                                  THEN <<"No country selected for daily post">>
                                  ELSE <<"No technology selected">>]_vars

\* C15 witness: a cycle on a populated country table and an empty technology
\* table ended at the selection of the technology.
C15_Witness ==
    /\ result.op = "_generate_daily_post"
    /\ result.log = <<"No technology selected">>
    /\ countries # {} /\ technologies = {}
    /\ posts = {} /\ media = {} /\ shares = {}

(***************************************************************************)
(* Social sharing of the daily post *)

\* the post a daily cycle step has just persisted
persisted_post == CHOOSE p \in posts' : p \notin posts

\* the step is a daily cycle that persisted a post
cycle_persisted ==
    /\ result'.op = "_generate_daily_post"
    /\ posts' # posts

\* the share rows the specification promises for a post scheduled at instant t
promised_shares(post_id, t) ==
    {[blog_post_id |-> post_id, platform |-> "twitter",
      scheduled_at |-> [at |-> t, minutes |-> 30], status |-> "scheduled"],
     [blog_post_id |-> post_id, platform |-> "linkedin",
      scheduled_at |-> [at |-> t, minutes |-> 60], status |-> "scheduled"],
     [blog_post_id |-> post_id, platform |-> "facebook",
      scheduled_at |-> [at |-> t, minutes |-> 90], status |-> "scheduled"]}

\* C16: a daily cycle that persists a post with auto-share enabled leaves exactly
\* three share rows for that post (twitter, linkedin, facebook; status scheduled;
\* 30, 60 and 90 minutes after scheduling); with auto-share disabled it creates
\* no share row.
C16_ThreeSharesPerPost ==
    [][cycle_persisted
         => IF config_flag(config, "social_media_auto_share")
            THEN /\ {s \in shares' : s.blog_post_id = persisted_post.id}
                      = promised_shares(persisted_post.id, utcnow(now, utc_offset))
                 /\ shares' \ shares
                      = promised_shares(persisted_post.id, utcnow(now, utc_offset))
            ELSE shares' = shares]_vars

(***************************************************************************)
(* SocialPublisher: publishing a post to the platforms *)

MaxShares == 3   \* share rows recorded by publish requests in a run

\* _load_platform_configs: the platforms that are configured and enabled
platform_configs == {"twitter", "linkedin", "facebook", "medium"}

\* what can happen for one platform: the publication succeeds or not, and its
\* share row is recorded or _record_social_share fails and rolls back
PublishOutcomes == [success : BOOLEAN, recorded : BOOLEAN]

\* the platform lists a publish request names
PlatformLists == {<<"twitter", "linkedin", "facebook">>, <<"linkedin", "myspace">>}

\* _record_social_share: the row of one platform
recorded_share(post_id, platform, success, t) ==
    [blog_post_id |-> post_id, platform |-> platform, shared_at |-> t,
     status |-> IF success THEN "published" ELSE "failed"]

\* publish_to_social_media: the results, one entry per platform named
publish_results(platform_list, outcome) ==
    [platform \in {platform_list[i] : i \in DOMAIN platform_list} |->
       LET i == CHOOSE j \in DOMAIN platform_list : platform_list[j] = platform
       IN IF platform \in platform_configs
          THEN [success |-> outcome[i].success,
                error |-> IF outcome[i].success THEN "" ELSE "publication failed"]
          ELSE [success |-> FALSE, error |-> "Platform not configured"]]

\* faulty variant: the first platform whose row cannot be recorded ends the loop
published_shares_until_failure(post_id, platform_list, outcome, t) ==
    {recorded_share(post_id, platform_list[i], outcome[i].success, t) :
       i \in {j \in DOMAIN platform_list :
                /\ platform_list[j] \in platform_configs
                /\ \A k \in 1..j : outcome[k].recorded}}

\* publish_to_social_media: the rows it records, each platform on its own
published_shares(post_id, platform_list, outcome, t) ==
    {recorded_share(post_id, platform_list[i], outcome[i].success, t) :
       i \in {j \in DOMAIN platform_list :
                /\ platform_list[j] \in platform_configs
                /\ outcome[j].recorded}}

\* POST /automation/social/publish
publish_to_social(blog_post_id, platform_list, outcome) ==
    LET blog_post == get(posts, blog_post_id)
    IN IF blog_post = None
       THEN /\ result' = [op |-> "publish_to_social", success |-> FALSE,
                          error |-> "Blog post not found"]
            /\ shares' = shares
       ELSE LET rows == published_shares(blog_post.id, platform_list, outcome,
                                         utcnow(now, utc_offset))
            IN /\ Cardinality({s \in shares \cup rows : s.status # "scheduled"})
                      <= MaxShares
               /\ shares' = shares \cup rows
               /\ result' = [op |-> "publish_to_social", success |-> TRUE,
                             blog_post_id |-> blog_post.id,
                             platforms |-> platform_list,
                             outcome |-> outcome,
                             results |-> publish_results(platform_list, outcome)]

PublishToSocial ==
    /\ \E blog_post_id \in {1, 99}, platform_list \in PlatformLists :
         \E outcome \in [DOMAIN platform_list -> PublishOutcomes] :
            publish_to_social(blog_post_id, platform_list, outcome)
    /\ UNCHANGED <<is_running, threads, jobs, utc_offset, subscribers, media_service, now,
                   countries, technologies, config, posts, media, daily_log>>

\* a populated store without posts on a server in UTC, auto-share enabled
ShareInit ==
    /\ is_running = FALSE
    /\ threads = << >>
    /\ jobs = 0
    /\ utc_offset = 0
    /\ subscribers = {}
    /\ media_service = TRUE
    /\ now = days(DaysPerMonth)
    /\ countries = {Kenya}
    /\ technologies = {MobileMoney}
    /\ config = SeedConfig
    /\ posts = {}
    /\ media = {}
    /\ shares = {}
    /\ daily_log = {}
    /\ result = [op |-> "none"]

\* the daily cycle and publish requests
ShareNext == DailyCycle \/ PublishToSocial

ShareSpec == ShareInit /\ [][ShareNext]_vars

\* the platforms for which the step wrote a share row of the post
platforms_written(post_id) ==
    {s.platform : s \in {r \in shares' \ shares : r.blog_post_id = post_id}}

\* in the daily cycle, a failure while scheduling the shares leaves the post in
\* place and the rows of the other platforms written
cycle_shares_isolated ==
    (/\ cycle_persisted
     /\ \E i \in DOMAIN result'.log : result'.log[i] = "Error scheduling social sharing")
      => /\ persisted_post \in posts'
         /\ posts \subseteq posts'
         /\ Cardinality(platforms_written(persisted_post.id)) >= Len(platforms) - 1

\* in a publish request every platform named is attempted and answered, the row
\* of a platform is written whenever its own recording works, and the posts stay
publish_shares_isolated ==
    (/\ result'.op = "publish_to_social"
     /\ result'.success)
      => /\ posts' = posts
         /\ \A i \in DOMAIN result'.platforms :
              LET platform == result'.platforms[i]
              IN /\ platform \in DOMAIN result'.results
                 /\ (platform \in platform_configs /\ result'.outcome[i].recorded)
                      => \E s \in shares' :
                           /\ s.blog_post_id = result'.blog_post_id
                           /\ s.platform = platform
                           /\ s.status = IF result'.outcome[i].success
                                         THEN "published" ELSE "failed"

\* C17: share failures are isolated per platform, in the daily cycle's share
\* scheduling and in publish_to_social_media: a failure for one platform does
\* not keep the other platforms' shares from being written or attempted, and
\* never removes or blocks the persisted post.
C17_ShareFailuresIsolated ==
    [][cycle_shares_isolated /\ publish_shares_isolated]_vars

\* the publish half of C17 alone
C17_PublishIsolated == [][publish_shares_isolated]_vars

\* a publish request in which one platform's row was recorded and another's
\* was not
C17_PublishWitness ==
    /\ result.op = "publish_to_social"
    /\ result.success
    /\ \E i, j \in DOMAIN result.platforms :
         /\ result.platforms[i] \in platform_configs
         /\ result.platforms[j] \in platform_configs
         /\ ~result.outcome[i].recorded
         /\ result.outcome[j].recorded
         /\ i < j

(***************************************************************************)
(* Media generation in the daily cycle *)

\* the step is a daily cycle during which generating the media assets failed
cycle_media_failed ==
    /\ result'.op = "_generate_daily_post"
    /\ \E i \in DOMAIN result'.log : result'.log[i] = "Error generating media assets"

PolicyUpdates ==
    {[key |-> "daily_posting_enabled", value |-> "False"],
     [key |-> "daily_posting_enabled", value |-> "True"],
     [key |-> "country_rotation_strategy", value |-> "random"],
     [key |-> "max_posts_per_country_per_month", value |-> "1"],
     [key |-> "content_quality_threshold", value |-> "high"],
     [key |-> "content_quality_threshold", value |-> "0.5"]}

UpdatePolicy ==
    \E update \in PolicyUpdates : update_automation_config(update.key, update.value)

\* daily cycles with reconfigurations between them
ConfigNext == DailyCycle \/ UpdatePolicy \/ Tick

ConfigSpec == Init /\ [][ConfigNext]_vars

\* daily_posting_enabled as the store has it
stored_daily_posting_enabled ==
    \/ config["daily_posting_enabled"] = NoRow
    \/ lower(config["daily_posting_enabled"]) = "true"

\* C19: configuration is read from the store at the start of every cycle, so the
\* stored daily_posting_enabled of the moment governs the cycle: a cycle that
\* starts while it is false skips generation and writes nothing, and a cycle
\* that starts while it is true does not skip.
C19_ConfigReadFresh ==
    [][result'.op = "_generate_daily_post"
         => IF stored_daily_posting_enabled
            THEN result'.log # <<"Daily posting is disabled, skipping generation">>
            ELSE /\ result'.log = <<"Daily posting is disabled, skipping generation">>
                 /\ UNCHANGED <<posts, media, shares, daily_log>>]_vars

(***************************************************************************)
(* POST /automation/preview *)

\* the response of preview_generation
Previewed(success, error, preview) ==
    result' = [op |-> "preview_generation", success |-> success, error |-> error,
               preview |-> preview]

\* the selection and the draft summary preview_generation answers with, or its
\* error; conduct_research and the summary raise or not (research_ok)
preview_response(country_id, technology_id, research_ok) ==
    \E country \in (IF country_id # 0 THEN {get(countries, country_id)}
                    ELSE select_daily_country(countries, posts, config, now)) :
       \/ /\ country = None
          /\ Previewed(FALSE, "No country found", None)
       \/ /\ country # None
          /\ \E technology \in
                  (IF technology_id # 0 THEN {get(technologies, technology_id)}
                   ELSE select_technology_for_country(country, technologies, posts, now)) :
               \/ /\ technology = None
                  /\ Previewed(FALSE, "No technology found", None)
               \/ /\ technology # None
                  /\ ~research_ok
                  /\ Previewed(FALSE, "str(e)", None)
               \/ /\ technology # None
                  /\ research_ok
                  /\ \E blog_data \in generate_blog_post(country, technology) :
                       Previewed(TRUE, "",
                                 [country |-> country, technology |-> technology,
                                  blog_preview |-> [title |-> blog_data.title,
                                                    word_count |-> blog_data.word_count]])

\* faulty variant: the previewed draft is saved as a post
preview_generation_saving(country_id, technology_id, research_ok) ==
    /\ preview_response(country_id, technology_id, research_ok)
    /\ IF result'.success
            /\ ~\E p \in posts : p.slug = _create_slug(result'.preview.blog_preview.title)
       THEN \E blog_data \in generate_blog_post(result'.preview.country,
                                                result'.preview.technology) :
              /\ blog_data.title = result'.preview.blog_preview.title
              /\ blog_data.word_count = result'.preview.blog_preview.word_count
              /\ Create(result'.preview.country, result'.preview.technology,
                        blog_data, << >>)
       ELSE UNCHANGED <<posts, media>>
    /\ UNCHANGED <<shares, config>>

\* preview_generation: queries and the generator only; no row is added, changed
\* or committed on any path
preview_generation(country_id, technology_id, research_ok) ==
    /\ preview_response(country_id, technology_id, research_ok)
    /\ UNCHANGED <<posts, media, shares, config>>

PreviewGeneration ==
    /\ \E request \in Requests, research_ok \in BOOLEAN :
         preview_generation(request.country_id, request.technology_id, research_ok)
    /\ UNCHANGED <<is_running, threads, jobs, utc_offset, subscribers, media_service, now,
                   countries, technologies, daily_log>>

\* daily cycles and previews
PreviewNext == DailyCycle \/ PreviewGeneration \/ Tick

PreviewSpec == Init /\ [][PreviewNext]_vars

\* C20: preview_generation persists nothing: the post, media, share and
\* configuration rows are the same after the call as before it, on the success
\* path and on every error path.
C20_PreviewPersistsNothing ==
    [][result'.op = "preview_generation"
         => UNCHANGED <<posts, media, shares, config, countries, technologies>>]_vars

\* C20 witness: a preview succeeded on a store that holds a post and its shares
C20_Witness ==
    /\ result.op = "preview_generation"
    /\ result.success
    /\ result.preview.blog_preview.word_count >= 800
    /\ posts # {}
    /\ shares # {}

\* a preview failed on a store that holds a post
C20_ErrorWitness ==
    /\ result.op = "preview_generation"
    /\ ~result.success
    /\ result.error \in {"No technology found", "str(e)"}
    /\ posts # {}

(***************************************************************************)
(* The monthly count select_daily_country works with *)

\* C21: the monthly count of a country that select_daily_country uses for the
\* quota and for regional balance is the number of the country's posts
\* published at or after the first instant of the current calendar month,
\* whatever the time of day at which the selection runs.
C21_MonthlyCountFromMonthStart ==
    result.op = "select_daily_country"
        => \A c \in countries :
             monthly_posts(c, posts, replace_day_1(now)) = MonthlyCount(c)

(***************************************************************************)
(* The polling loop running the daily job *)

\* faulty variant: the error of a failed step leaves the cycle and reaches the
\* except branch of the loop
after_daily_job_propagating(log) ==
    IF log # << >> /\ log[Len(log)] = "Error generating daily post"
    THEN "error_sleep" ELSE "sleep"

\* where the thread goes after schedule.run_pending() ran the daily job: the
\* body of _generate_daily_post is one try/except Exception, so run_pending
\* returns and the thread sleeps its 60 seconds whatever the cycle logged
after_daily_job(log) == "sleep"

\* schedule.run_pending() finds the daily job due and runs it in the thread
run_daily_job(i) ==
    /\ threads[i] = "run_pending"
    /\ jobs > 0
    /\ _generate_daily_post
    /\ threads' = [threads EXCEPT ![i] = after_daily_job(result'.log)]

RunDailyJob ==
    /\ \E i \in DOMAIN threads : run_daily_job(i)
    /\ UNCHANGED <<is_running, jobs, utc_offset, subscribers, media_service, now, countries,
                   technologies, config>>

\* a store with or without countries and technologies, with a readable or an unreadable quality
\* threshold, the image service up or down, and the scheduler not yet started
LoopInit ==
    /\ is_running = FALSE
    /\ threads = << >>
    /\ jobs = 0
    /\ utc_offset = 0
    /\ subscribers = {}
    /\ media_service \in BOOLEAN
    /\ now = days(DaysPerMonth)
    /\ countries \in {{}, {Kenya}}
    /\ technologies \in {{}, {MobileMoney}}
    /\ config \in {SeedConfig, [SeedConfig EXCEPT !["content_quality_threshold"] = "high"]}
    /\ posts = {}
    /\ media = {}
    /\ shares = {}
    /\ daily_log = {}
    /\ result = [op |-> "none"]

\* the scheduler is started and its loop polls; a poll finds the daily job due
\* or not
LoopNext == StartScheduler \/ PollingLoop \/ RunDailyJob

LoopSpec == LoopInit /\ [][LoopNext]_vars

\* the thread keeps stepping, and the daily job, which the schedule makes due
\* every day, is found due by some poll
LoopLiveSpec == LoopSpec /\ WF_vars(PollingLoop) /\ SF_vars(RunDailyJob)

\* the last step was a daily cycle that did not publish
cycle_aborted ==
    /\ result.op = "_generate_daily_post"
    /\ result.log[Len(result.log)] # "Successfully generated and published"

\* C22: a daily cycle never propagates an exception to the polling loop:
\* whichever step fails, the thread goes on with its loop (it never enters the
\* loop's except branch and never ends while the scheduler runs), and after an
\* aborted cycle the loop polls again and a new cycle starts.
C22_CycleNeverStopsLoop ==
    /\ [](\A i \in DOMAIN threads :
            /\ threads[i] # "error_sleep"
            /\ is_running => threads[i] # "done")
    /\ cycle_aborted ~> (result.op = "none" /\ <>(result.op = "_generate_daily_post"))

\* C22 witness: _create_blog_post failed, the cycle logged the error, and the
\* thread that ran it is asleep until its next poll.
C22_Witness ==
    /\ cycle_logged("Error generating daily post")
    /\ is_running
    /\ \E i \in DOMAIN threads : threads[i] = "sleep"

(***************************************************************************)
(* What a rejection by the quality gate reports *)

\* the rules of the gate a draft fails, by the warning of each
failed_rules(blog_data) ==
    {rule \in {"Content too short", "Missing required keywords", "Title too short"} :
       \/ rule = "Content too short" /\ blog_data.word_count < 800
       \/ rule = "Missing required keywords"
            /\ Cardinality(KeywordsPresent(blog_data.content)) < 2
       \/ rule = "Title too short" /\ Len(blog_data.title) < 20}

\* C23: when the gate rejects a draft, what it reports names the rules the
\* draft failed: every failed rule, for a draft that fails several.
C23_RejectionReportsEveryRule ==
    (result.op = "_quality_check" /\ result.value = FALSE)
        => {result.log[i] : i \in DOMAIN result.log} = failed_rules(result.blog_data)

(***************************************************************************)
(* The 'already posted today' check under concurrency.  The daily job runs   *)
(* in a polling thread in two steps: the check of the day's posts, after     *)
(* which the thread is at "checked", and the generation and the write.       *)
(* Manual triggers run in request threads.                                   *)

\* the first part of _generate_daily_post in thread i: the configuration is
\* loaded and the day's post is looked up; the cycle returns, or goes on
daily_post_check(i) ==
    /\ threads[i] = "run_pending"
    /\ jobs > 0
    /\ \/ /\ ~_load_automation_config(config).daily_posting_enabled
          /\ Logged(<<"Daily posting is disabled, skipping generation">>)
          /\ threads' = [threads EXCEPT ![i] = "sleep"]
       \/ /\ _load_automation_config(config).daily_posting_enabled
          /\ existing_post(posts, now) # {}
          /\ Logged(<<"Post already exists for today">>)
          /\ threads' = [threads EXCEPT ![i] = "sleep"]
       \/ /\ _load_automation_config(config).daily_posting_enabled
          /\ existing_post(posts, now) = {}
          /\ result' = [op |-> "none"]
          /\ threads' = [threads EXCEPT ![i] = "checked"]

CycleCheck ==
    /\ \E i \in DOMAIN threads : daily_post_check(i)
    /\ UNCHANGED <<is_running, jobs, utc_offset, subscribers, media_service, now, countries,
                   technologies, config, posts, media, shares, daily_log>>

\* faulty variant: the day's post is looked up again at the time of the write
daily_post_write_rechecked(i) ==
    /\ threads[i] = "checked"
    /\ IF existing_post(posts, now) # {}
       THEN /\ Logged(<<"Post already exists for today">>)
            /\ UNCHANGED <<posts, media, shares, daily_log>>
       ELSE generate_and_publish
    /\ threads' = [threads EXCEPT ![i] = "sleep"]

\* the second part of _generate_daily_post in thread i: what the check saw is
\* not looked at again
daily_post_write(i) ==
    /\ threads[i] = "checked"
    /\ generate_and_publish
    /\ threads' = [threads EXCEPT ![i] = "sleep"]

CycleWrite ==
    /\ \E i \in DOMAIN threads : daily_post_write(i)
    /\ UNCHANGED <<is_running, jobs, utc_offset, subscribers, media_service, now, countries,
                   technologies, config>>

\* a populated store on a server in UTC, and a running scheduler whose daily job
\* is due: one polling loop inside run_pending, or two, as a restart during a
\* job leaves them (start, a poll, a change of a critical setting, a poll)
RaceInit ==
    /\ is_running = TRUE
    /\ threads \in {<<"run_pending">>, <<"run_pending", "run_pending">>}
    /\ jobs = 1
    /\ utc_offset = 0
    /\ subscribers = {}
    /\ media_service = TRUE
    /\ now = days(DaysPerMonth)
    /\ countries = {Kenya}
    /\ technologies = {MobileMoney}
    /\ config = SeedConfig
    /\ posts = {}
    /\ media = {}
    /\ shares = {}
    /\ daily_log = {}
    /\ result = [op |-> "none"]

\* the polling threads run the daily job in two steps, and manual triggers
\* arrive
RaceNext == CycleCheck \/ CycleWrite \/ ManualTrigger

RaceSpec == RaceInit /\ [][RaceNext]_vars

\* the step is the write of a daily cycle that had passed the check
write_after_check ==
    \E i \in DOMAIN threads : threads[i] = "checked" /\ threads'[i] = "sleep"

\* C24: the 'already posted today' check is a non-atomic read-then-act: a cycle
\* that has passed the check goes on to generate and write without looking at
\* the day's posts again, whatever has been written since, so that two daily
\* cycles, or a daily cycle and a manual trigger, started on a day without a
\* post can both persist a post for that day.
C24_CheckNotRepeatedAtWrite ==
    [][write_after_check
         => /\ result'.op = "_generate_daily_post"
            /\ result'.log # <<"Post already exists for today">>
            /\ (result'.log[Len(result'.log)] = "Successfully generated and published"
                  => /\ posts' # posts
                     /\ date(persisted_post.published_at) = date(now))]_vars

\* C24 witness: two daily cycles both passed the check and both persisted a
\* post for the same day.
C24_Witness ==
    \E p, q \in daily_posts :
       /\ p.id # q.id
       /\ date(p.published_at) = date(q.published_at)
       /\ date(p.published_at) = date(now)

\* a daily cycle and a manual trigger both persisted a post for the same day,
\* the cycle after the trigger
C24_ManualWitness ==
    \E p \in daily_posts, q \in posts \ daily_posts :
       /\ date(p.published_at) = date(q.published_at)
       /\ q.id < p.id

(***************************************************************************)
(* The registered jobs across start_scheduler and stop_scheduler *)

\* C25: start_scheduler on a running scheduler and stop_scheduler on a stopped
\* one change nothing; and whatever starts and stops were called, a failing
\* start included, at most one daily job is registered, a job is registered
\* only while is_running is true, and after stop_scheduler no job is registered.
C25_JobsFollowRunning ==
    /\ [](/\ jobs <= 1
          /\ jobs > 0 => is_running
          /\ result.op = "stop_scheduler" => jobs = 0)
    /\ [][/\ (result'.op = "start_scheduler" /\ is_running)
               => UNCHANGED <<is_running, threads, jobs>>
          /\ (result'.op = "stop_scheduler" /\ ~is_running)
               => UNCHANGED <<is_running, threads, jobs>>]_vars

(***************************************************************************)
(* SocialPublisher.process_scheduled_shares *)

MinutesPerTick == (24 * 60) \div TicksPerDay

\* SocialShare.scheduled_at <= current_time
due(share, t) ==
    share.scheduled_at.at * MinutesPerTick + share.scheduled_at.minutes
        <= t * MinutesPerTick

\* SocialShare.query.filter(status == 'scheduled', scheduled_at <= current_time)
scheduled_shares(rows, t) ==
    {s \in rows : "scheduled_at" \in DOMAIN s /\ s.status = "scheduled" /\ due(s, t)}

\* faulty variant: every scheduled share is processed, due or not
processed_shares_any_time(rows, history, t, published) ==
    {IF "scheduled_at" \in DOMAIN s /\ s.status = "scheduled"
     THEN [s EXCEPT !.status = IF s \in published THEN "published" ELSE "failed"]
     ELSE s : s \in rows}

\* the share rows after the loop: a due share whose post exists is published or
\* failed, as its platform answers; the other rows are not touched
processed_shares(rows, history, t, published) ==
    {IF s \in scheduled_shares(rows, t) /\ get(history, s.blog_post_id) # None
     THEN [s EXCEPT !.status = IF s \in published THEN "published" ELSE "failed"]
     ELSE s : s \in rows}

\* process_scheduled_shares: the query, the loop and one commit; when the query
\* or the commit raises, the session is rolled back and no row is changed
process_scheduled_shares(published, process_ok) ==
    IF process_ok
    THEN /\ shares' = processed_shares(shares, posts, utcnow(now, utc_offset), published)
         /\ result' = [op |-> "process_scheduled_shares", value |-> None,
                       log |-> <<"Processed scheduled shares">>]
    ELSE /\ shares' = shares
         /\ result' = [op |-> "process_scheduled_shares", value |-> None,
                       log |-> <<"Error processing scheduled shares">>]

ProcessScheduledShares ==
    /\ \E published \in SUBSET scheduled_shares(shares, utcnow(now, utc_offset)),
          process_ok \in BOOLEAN :
         process_scheduled_shares(published, process_ok)
    /\ UNCHANGED <<is_running, threads, jobs, utc_offset, subscribers, media_service, now,
                   countries, technologies, config, posts, media, daily_log>>

\* daily cycles enqueue shares, time passes, and the shares are processed
ProcessNext == DailyCycle \/ Tick \/ ProcessScheduledShares

ProcessSpec == ShareInit /\ [][ProcessNext]_vars

\* the row of shares' that is the share s of shares, whatever its status
same_share(s, r) ==
    /\ r.blog_post_id = s.blog_post_id
    /\ r.platform = s.platform
    /\ r.scheduled_at = s.scheduled_at

\* C26: process_scheduled_shares changes only the shares with status scheduled
\* whose scheduled_at is not later than the current time: each such share whose
\* post exists ends published or failed; shares scheduled in the future and
\* shares already published or failed are left as they are, and no step ever
\* moves a share back to scheduled.
C26_ProcessOnlyDueShares ==
    [][/\ result'.op = "process_scheduled_shares"
            => /\ Cardinality(shares') = Cardinality(shares)
               /\ \A s \in shares :
                    IF s.status = "scheduled" /\ due(s, utcnow(now, utc_offset))
                         /\ \E p \in posts : p.id = s.blog_post_id
                    THEN \E r \in shares' : /\ same_share(s, r)
                                            /\ r.status \in {"published", "failed"}
                    ELSE s \in shares'
       /\ \A s \in shares : s.status # "scheduled" => s \in shares']_vars

\* the part of C26 that holds whether or not the processing fails
C26_OnlyDueSharesChange ==
    [][/\ result'.op = "process_scheduled_shares"
            => /\ Cardinality(shares') = Cardinality(shares)
               /\ \A s \in shares :
                    \/ s \in shares'
                    \/ /\ s.status = "scheduled"
                       /\ due(s, utcnow(now, utc_offset))
                       /\ \E r \in shares' : /\ same_share(s, r)
                                             /\ r.status \in {"published", "failed"}
       /\ \A s \in shares : s.status # "scheduled" => s \in shares']_vars

\* the due shares of a post were processed, one published and one failed
C26_Witness ==
    /\ result.op = "process_scheduled_shares"
    /\ \E s \in shares : s.status = "published"
    /\ \E s \in shares : s.status = "failed"

\* the shares of a post were not due when the processing ran, and stayed
C26_FutureWitness ==
    /\ result.op = "process_scheduled_shares"
    /\ result.log = <<"Processed scheduled shares">>
    /\ shares # {}
    /\ \A s \in shares : s.status = "scheduled" /\ ~due(s, utcnow(now, utc_offset))

(***************************************************************************)
(* The scheduled shares while the scheduler runs.  The jobs                  *)
(* _schedule_daily_tasks registers are the daily post, the content           *)
(* preparation, the weekly analytics and the monthly cleanup; none of them,  *)
(* and no route, calls process_scheduled_shares.                             *)

\* the scheduler is started, its loop polls and runs the daily job, and time
\* passes
QueueNext == StartScheduler \/ PollingLoop \/ RunDailyJob \/ Tick

QueueSpec == LoopInit /\ [][QueueNext]_vars

\* the thread keeps stepping, the daily job is found due by some poll, and the
\* clock advances
QueueLiveSpec ==
    QueueSpec /\ WF_vars(PollingLoop) /\ SF_vars(RunDailyJob) /\ WF_vars(Tick)

\* some share is still scheduled although its time has passed
overdue_share ==
    \E s \in shares : s.status = "scheduled" /\ due(s, utcnow(now, utc_offset))

\* C27: while the scheduler is running, every share enqueued with status
\* scheduled is eventually processed once its scheduled_at has passed: it
\* reaches status published or failed.
C27_ScheduledSharesProcessed ==
    (is_running /\ overdue_share) ~> (~is_running \/ ~overdue_share)

(***************************************************************************)
(* SocialPublisher._create_twitter_content, on the lengths of its strings    *)

character_limit == 280

\* len(" ".join(part for part in parts if part))
join_len(parts) ==
    LET filled == {i \in DOMAIN parts : parts[i] > 0}
        RECURSIVE total(_)
        total(ix) == IF ix = {} THEN 0
                     ELSE LET i == CHOOSE j \in ix : TRUE
                          IN parts[i] + total(ix \ {i})
    IN IF filled = {} THEN 0 ELSE total(filled) + Cardinality(filled) - 1

\* len(s[:k]) for a string of n characters: a negative k counts from the end
slice_len(n, k) ==
    IF k >= 0 THEN (IF n < k THEN n ELSE k)
    ELSE (IF n + k > 0 THEN n + k ELSE 0)

\* len(f" How {technology.name} is transforming {country.name}'s economy")
\* after the one-character emoji
base_tweet_len(technology_name, country_name) ==
    1 + Len(" How ") + Len(technology_name) + Len(" is transforming ")
      + Len(country_name) + Len("'s economy")

\* len(f"{self.base_url}/blog/{blog_post.slug}")
blog_url_len(slug_len) == Len("https://techsouth.blog") + Len("/blog/") + slug_len

\* the length of the text _create_twitter_content returns
_create_twitter_content(base_tweet, blog_url, hashtag_text) ==
    LET tweet == join_len(<<base_tweet, blog_url, hashtag_text>>)
        available_chars == character_limit - blog_url - hashtag_text - 2
        truncated_base == slice_len(base_tweet, available_chars) + Len("...")
        \* f"{truncated_base} {blog_url} {hashtag_text}".strip()
        truncated == truncated_base + 1 + blog_url + 1 + hashtag_text
                       - (IF hashtag_text = 0 THEN 1 ELSE 0)
    IN IF tweet > character_limit THEN truncated ELSE tweet

\* slugs of up to the 200 characters of the column, and the first two hashtags:
\* the two of the platform, or two made from the tags of the post
TweetSlugLengths == {20, 60, 150, 190, 200}
TweetHashtagLengths == {Len("#TechForGood #GlobalSouth"), 40, 60, 120, 260}

TweetInit ==
    /\ is_running = FALSE
    /\ threads = << >>
    /\ jobs = 0
    /\ utc_offset = 0
    /\ subscribers = {}
    /\ media_service = TRUE
    /\ now = days(DaysPerMonth)
    /\ countries = {}
    /\ technologies = {}
    /\ config = SeedConfig
    /\ posts = {}
    /\ media = {}
    /\ shares = {}
    /\ daily_log = {}
    /\ result \in {[op |-> "post", country |-> c.name, technology |-> t.name,
                    slug |-> slug, hashtag_text |-> hashtag_text] :
                     c \in {Kenya, Turkey}, t \in {MobileMoney, ArtificialIntelligence},
                     slug \in TweetSlugLengths, hashtag_text \in TweetHashtagLengths}

CreateTwitterContent ==
    /\ result.op = "post"
    /\ result' = [op |-> "_create_twitter_content",
                  base_tweet |-> base_tweet_len(result.technology, result.country),
                  blog_url |-> blog_url_len(result.slug),
                  hashtag_text |-> result.hashtag_text,
                  value |-> _create_twitter_content(
                                base_tweet_len(result.technology, result.country),
                                blog_url_len(result.slug), result.hashtag_text)]
    /\ UNCHANGED <<is_running, threads, jobs, utc_offset, subscribers, media_service, now,
                   countries, technologies, config, posts, media, shares, daily_log>>

TweetNext == CreateTwitterContent

TweetSpec == TweetInit /\ [][TweetNext]_vars

\* C28: _create_twitter_content returns a text of at most 280 characters for
\* every post, also when the untruncated tweet exceeds the limit and the base
\* text is truncated.
C28_TweetWithinLimit ==
    result.op = "_create_twitter_content" => result.value <= character_limit

\* tweets that need no truncation are within the limit
C28_UntruncatedWithinLimit ==
    (/\ result.op = "_create_twitter_content"
     /\ join_len(<<result.base_tweet, result.blog_url, result.hashtag_text>>)
          <= character_limit)
       => result.value <= character_limit

(***************************************************************************)
(* Slugs of the posts *)

\* daily cycles and manual triggers over the days, on a populated store
SlugNext == DailyCycle \/ ManualTrigger \/ Tick

SlugSpec == ShareInit /\ [][SlugNext]_vars

\* the drafts the generator can make for the rows of the tables whose slug is
\* the slug of a post of the store
colliding_drafts ==
    UNION {{d \in generate_blog_post(c, t) :
              \E p \in posts : p.slug = _create_slug(d.title)} :
           c \in countries, t \in technologies}

\* the last invocation failed in _create_blog_post
creation_error ==
    \/ cycle_logged("Error creating blog post")
    \/ /\ result.op = "trigger_manual_generation"
       /\ result.value.error = "str(e)"

\* C29: the posts of the store have pairwise distinct slugs; a cycle or manual
\* trigger whose title yields the slug of an existing post fails in
\* persistence and leaves the store unchanged.
C29_SlugsDistinct ==
    /\ [](/\ \A p, q \in posts : p.slug = q.slug => p = q
          /\ \A d \in colliding_drafts : _create_blog_post_raises(d, posts, TRUE))
    /\ [][/\ \A p \in posts' \ posts : \A q \in posts : q.slug # p.slug
          /\ creation_error' => UNCHANGED <<posts, media, shares, daily_log>>]_vars

\* C29 witness: a post exists, the generator can make a draft with its slug,
\* and the last invocation failed in persistence and left the post alone.
C29_Witness ==
    /\ creation_error
    /\ colliding_drafts # {}
    /\ Cardinality(posts) = 1

(* ------------------------------------------------------------------------ *)
(* Newsletter subscriptions (routes/newsletter.py).  A request carries a     *)
(* JSON body; `json` is FALSE for a body that is not an object with a string *)
(* under 'email', on which data.get(...).strip() raises inside the try.      *)
(* ------------------------------------------------------------------------ *)
RequestEmails ==
    {"ann@example.com", "Ann@Example.com", " ann@example.com ", "bob@example.com",
     "ann.example.com", "  "}

NewsletterRequests ==
    {[json |-> TRUE, email |-> e] : e \in RequestEmails} \cup {[json |-> FALSE, email |-> ""]}

\* str.strip() on the addresses the model uses
strip(s) == CASE s = " ann@example.com " -> "ann@example.com"
              [] s = "  " -> ""
              [] OTHER -> s

\* str.lower() and db.func.lower() on the addresses the model uses
lower_address(s) == CASE s = "Ann@Example.com" -> "ann@example.com"
                      [] OTHER -> s

\* faulty variant: the address is stripped but keeps its case
request_email_case_kept(data) == strip(data.email)

\* data.get('email', '').strip().lower()
request_email(data) == lower_address(strip(data.email))

\* re.match(pattern, email): local part, '@', domain with a dot and a 2+ letter suffix
is_valid_email(email) == email \in {"ann@example.com", "Ann@Example.com", "bob@example.com"}

\* NewsletterSubscriber.query.filter(db.func.lower(NewsletterSubscriber.email) == email)
matching_subscribers(rows, email) == {r \in rows : lower_address(r.email) = email}

\* jsonify(...), status
Responded(op, data, status) == [op |-> op, data |-> data, status |-> status]

\* POST /subscribe; commit_ok is FALSE when db.session.commit() raises.  The column
\* email is unique, so the commit of an insert also raises on an equal stored address.
subscribe(data, commit_ok) ==
    LET email == request_email(data)
        existing == matching_subscribers(subscribers, email)
        respond(status) == result' = Responded("subscribe", data, status)
    IN  IF ~data.json THEN respond(500) /\ UNCHANGED subscribers
        ELSE IF email = "" THEN respond(400) /\ UNCHANGED subscribers
        ELSE IF ~is_valid_email(email) THEN respond(400) /\ UNCHANGED subscribers
        ELSE IF existing # {}
        THEN \E e \in existing :
                IF e.is_active THEN respond(409) /\ UNCHANGED subscribers
                ELSE IF commit_ok
                THEN /\ subscribers' = (subscribers \ {e}) \cup
                            {[e EXCEPT !.is_active = TRUE,
                                       !.subscribed_at = utcnow(now, utc_offset)]}
                     /\ respond(200)
                ELSE respond(500) /\ UNCHANGED subscribers
        ELSE IF commit_ok /\ ~\E r \in subscribers : r.email = email
        THEN /\ subscribers' = subscribers \cup
                    {[id |-> next_id(subscribers), email |-> email, is_active |-> TRUE,
                      subscribed_at |-> utcnow(now, utc_offset)]}
             /\ respond(201)
        ELSE respond(500) /\ UNCHANGED subscribers

Subscribe ==
    /\ \E data \in NewsletterRequests, commit_ok \in BOOLEAN : subscribe(data, commit_ok)
    /\ UNCHANGED <<is_running, threads, jobs, utc_offset, media_service, now, countries,
                   technologies, config, posts, media, shares, daily_log>>

\* POST /unsubscribe
unsubscribe(data, commit_ok) ==
    LET email == request_email(data)
        found == matching_subscribers(subscribers, email)
        respond(status) == result' = Responded("unsubscribe", data, status)
    IN  IF ~data.json THEN respond(500) /\ UNCHANGED subscribers
        ELSE IF email = "" THEN respond(400) /\ UNCHANGED subscribers
        ELSE IF found = {} THEN respond(404) /\ UNCHANGED subscribers
        ELSE \E subscriber \in found :
                IF commit_ok
                THEN /\ subscribers' = (subscribers \ {subscriber}) \cup
                            {[subscriber EXCEPT !.is_active = FALSE]}
                     /\ respond(200)
                ELSE respond(500) /\ UNCHANGED subscribers

Unsubscribe ==
    /\ \E data \in NewsletterRequests, commit_ok \in BOOLEAN : unsubscribe(data, commit_ok)
    /\ UNCHANGED <<is_running, threads, jobs, utc_offset, media_service, now, countries,
                   technologies, config, posts, media, shares, daily_log>>

NewsletterNext == Subscribe \/ Unsubscribe \/ Tick

\* an empty table newsletter_subscribers, requests arriving while the clock advances
NewsletterSpec == ShareInit /\ [][NewsletterNext]_vars

\* no two rows stand for the same lower-cased address
one_row_per_address ==
    \A r, q \in subscribers : lower_address(r.email) = lower_address(q.email) => r = q

\* the rows standing for the address a request names, before the request
known_rows(data) ==
    {r \in subscribers : data.json /\ lower_address(r.email) = lower_address(strip(data.email))}

\* the step replaces row r by `changed` and touches nothing else
row_replaced(r, changed) ==
    /\ changed \in subscribers'
    /\ subscribers' \ {changed} = subscribers \ {r}

newsletter_step_as_stated ==
    LET op == result'.op
        data == result'.data
        status == result'.status
    IN  /\ (op = "subscribe" /\ \E r \in known_rows(data) : r.is_active)
               => subscribers' = subscribers
        /\ (op = "subscribe" /\ known_rows(data) # {}
                /\ \A r \in known_rows(data) : ~r.is_active)
               => IF status = 200
                  THEN \E r \in known_rows(data), t \in 0..now :
                          row_replaced(r, [r EXCEPT !.is_active = TRUE, !.subscribed_at = t])
                  ELSE subscribers' = subscribers
        /\ (op = "unsubscribe" /\ known_rows(data) # {})
               => IF status = 200
                  THEN \E r \in known_rows(data) :
                          row_replaced(r, [r EXCEPT !.is_active = FALSE])
                  ELSE subscribers' = subscribers
        /\ (op = "unsubscribe" /\ known_rows(data) = {})
               => subscribers' = subscribers

\* C30: after any sequence of subscribe and unsubscribe requests the table holds at
\* most one row per lower-cased address; subscribing an active address changes
\* nothing, subscribing an unsubscribed address reactivates the same row, a
\* successful unsubscribe sets is_active to FALSE and keeps the row, and
\* unsubscribing an unknown address changes nothing
C30_OneRowPerAddress ==
    /\ [](one_row_per_address)
    /\ [][result'.op \in {"subscribe", "unsubscribe"} => newsletter_step_as_stated]_vars

\* an address subscribed, unsubscribed, and subscribed again under another spelling
\* after the clock advanced: the one row, with its first id, is active again
C30_Witness ==
    /\ result.op = "subscribe"
    /\ result.status = 200
    /\ result.data.email = "Ann@Example.com"
    /\ \E r \in subscribers :
          /\ r.id = 1 /\ r.email = "ann@example.com" /\ r.is_active
          /\ r.subscribed_at = now /\ now > days(DaysPerMonth)
    /\ \E q \in subscribers : q.email = "bob@example.com" /\ ~q.is_active

====
